---- MODULE Spec2Model ----
(***************************************************************************)
(* Model of the coffee ERP's quality-assessment pricing engine             *)
(* (assessment/models.py), of the create-or-update view that saves         *)
(* assessments (assessment/views.py), and of the bookkeeping that hangs    *)
(* off saves through signals: stock (inventory/signals.py,                 *)
(* inventory/models.py) and supplier accounts (store/signals.py).          *)
(*                                                                         *)
(* Number representation.  Every DecimalField of Assessment has two        *)
(* decimal places, so a field value is an integer count of hundredths      *)
(* (12.50 % is 1250, 5000.00 UGX is 500000).  An optional value (Python    *)
(* None) is the empty tuple <<>>, a present value v is <<v>>.  An          *)
(* intermediate Decimal of compute_final_price carries more than two       *)
(* places (the moisture penalty multiplies by 0.002), so it is a pair      *)
(* [c, f] standing for c + f / Sub hundredths with 0 <= f < Sub.           *)
(***************************************************************************)
EXTENDS Integers, Sequences, FiniteSets, TLC

VARIABLES
    obj,        \* the in-memory Assessment of the evaluation and save specifications;
                \* the last call or saved instance of the stock and ledger ones
    pc,         \* its position or outcome: "new", "refreshed", "saved", the name of
                \* the exception raised ("off" in the view's specification)
    table,      \* the Assessment table: the set of stored rows
    nextPk,     \* the next primary key the table hands out
    purchases,  \* CoffeePurchase rows: purchase id -> the row's columns
    req,        \* assessment_create requests in flight: request id -> local state
    inventory,  \* CoffeeInventory rows: <<category, type>> -> [quantity, average_unit_cost, current_value]
    sales,      \* the CoffeeSale table: the set of stored rows
    accounts,   \* SupplierAccount rows: account -> balance
    txns,       \* the SupplierTransaction table: the set of stored rows
    ops         \* the operations done so far, where a specification caps them

vars == <<obj, pc, table, nextPk, purchases, req, inventory, sales, accounts, txns, ops>>

-----------------------------------------------------------------------------
(* Optional values *)

None == <<>>

Some(x) == <<x>>

\* Python's `x or 0` on a Decimal-or-None field: None (and zero) give 0.
OrZero(x) == IF x = None THEN 0 ELSE x[1]

-----------------------------------------------------------------------------
(* Decimal arithmetic *)

\* Sub-hundredth resolution of an intermediate Decimal: hundredths (1e-2) of
\* a percent times hundredths of a UGX times 0.002 (1e-3) is 1e-7, i.e. 1e-5
\* of a hundredth.
Sub == 100000

\* An exact number of hundredths as an intermediate Decimal.
Dec(c) == [c |-> c, f |-> 0]

\* n / Sub hundredths as an intermediate Decimal (floor and remainder).
DecFrac(n) == [c |-> n \div Sub, f |-> n % Sub]

DecAdd(a, b) ==
    [c |-> a.c + b.c + ((a.f + b.f) \div Sub), f |-> (a.f + b.f) % Sub]

DecNeg(a) == IF a.f = 0 THEN [c |-> -a.c, f |-> 0] ELSE [c |-> -a.c - 1, f |-> Sub - a.f]

DecSub(a, b) == DecAdd(a, DecNeg(b))

\* Decimal.quantize(Decimal("0.01"), rounding=ROUND_HALF_UP): to the nearest
\* hundredth, a tie going away from zero.
Quantize(x) ==
    IF x.c >= 0
    THEN (IF 2 * x.f >= Sub THEN x.c + 1 ELSE x.c)
    ELSE (IF 2 * x.f > Sub THEN x.c + 1 ELSE x.c)

\* clamp2(x): None stays None, anything else is quantized to 2 places.
clamp2(x) == IF x = None THEN None ELSE Some(Quantize(x[1]))

\* Python's max(a, b) on two numbers.
Max(a, b) == IF b > a THEN b ELSE a

-----------------------------------------------------------------------------
(* Assessment: computations *)

\* The nested helper of compute_derived_outturn.
excess(x, base) == IF x > base THEN x - base ELSE 0

\* CleanOutturn = 100 - G1 - G2 - Pods - Husks - Stones - BelowScreen12
compute_clean_outturn(self) ==
    clamp2(Some(Dec(10000
                    - OrZero(self.group1_defects)
                    - OrZero(self.group2_defects)
                    - OrZero(self.pods)
                    - OrZero(self.husks)
                    - OrZero(self.stones)
                    - OrZero(self.below_screen_12))))

\* Faulty variant, for sensitivity checks: the variant without the reject gate, which always computes a value.
compute_derived_outturn_NoGate(self) ==
    clamp2(Some(Dec(10000
                    - excess(OrZero(self.moisture_content), 1400)
                    - excess(OrZero(self.group1_defects), 400)
                    - excess(OrZero(self.group2_defects), 1000)
                    - OrZero(self.pods)
                    - OrZero(self.husks)
                    - OrZero(self.stones)
                    - excess(OrZero(self.below_screen_12), 100))))

\* Reject gate on below_screen_12 > 3, otherwise 100 minus the excesses.
compute_derived_outturn(self) ==
    IF OrZero(self.below_screen_12) > 300
    THEN None
    ELSE clamp2(Some(Dec(10000
                         - excess(OrZero(self.moisture_content), 1400)
                         - excess(OrZero(self.group1_defects), 400)
                         - excess(OrZero(self.group2_defects), 1000)
                         - OrZero(self.pods)
                         - OrZero(self.husks)
                         - OrZero(self.stones)
                         - excess(OrZero(self.below_screen_12), 100))))

\* One reason string: the f-string's fixed text and the value formatted in it.
Reason(text, value) == <<text, value>>

\* `if cond: reasons.append(r)` as the piece it contributes to the list.
AppendIf(cond, r) == IF cond THEN <<r>> ELSE <<>>

\* Faulty variant, for sensitivity checks: the moisture check made non-strict (>= 16.5).
compute_rejection_reasons_NonStrict(self) ==
    LET moisture == OrZero(self.moisture_content)
        group1 == OrZero(self.group1_defects)
        group2 == OrZero(self.group2_defects)
        below_screen == OrZero(self.below_screen_12)
        pods == OrZero(self.pods)
        husks == OrZero(self.husks)
        stones == OrZero(self.stones)
        phs_sum == pods + husks + stones
    IN  AppendIf(below_screen > 300, Reason("Below screen 12 {}% > 3%", below_screen))
        \o AppendIf(moisture >= 1650, Reason("Moisture {}% > 16.5%", moisture))
        \o AppendIf(group1 > 1000, Reason("Group 1 defects {}% > 10%", group1))
        \o AppendIf(group2 > 2500, Reason("Group 2 defects {}% > 25%", group2))
        \o AppendIf(pods > 600, Reason("Pods {}% > 6%", pods))
        \o AppendIf(husks > 600, Reason("Husks {}% > 6%", husks))
        \o AppendIf(stones > 600, Reason("Stones {}% > 6%", stones))
        \o AppendIf(phs_sum > 600,
                    Reason("Pods+Husks+Stones {}% > 6%", clamp2(Some(Dec(phs_sum)))[1]))

compute_rejection_reasons(self) ==
    LET moisture == OrZero(self.moisture_content)
        group1 == OrZero(self.group1_defects)
        group2 == OrZero(self.group2_defects)
        below_screen == OrZero(self.below_screen_12)
        pods == OrZero(self.pods)
        husks == OrZero(self.husks)
        stones == OrZero(self.stones)
        phs_sum == pods + husks + stones
    IN  AppendIf(below_screen > 300, Reason("Below screen 12 {}% > 3%", below_screen))
        \o AppendIf(moisture > 1650, Reason("Moisture {}% > 16.5%", moisture))
        \o AppendIf(group1 > 1000, Reason("Group 1 defects {}% > 10%", group1))
        \o AppendIf(group2 > 2500, Reason("Group 2 defects {}% > 25%", group2))
        \o AppendIf(pods > 600, Reason("Pods {}% > 6%", pods))
        \o AppendIf(husks > 600, Reason("Husks {}% > 6%", husks))
        \o AppendIf(stones > 600, Reason("Stones {}% > 6%", stones))
        \o AppendIf(phs_sum > 600,
                    Reason("Pods+Husks+Stones {}% > 6%", clamp2(Some(Dec(phs_sum)))[1]))

\* The bonus condition of compute_final_price.
bonus(self, derived_outturn) ==
    /\ OrZero(self.group1_defects) <= 100
    /\ OrZero(self.group2_defects) <= 500
    /\ OrZero(self.moisture_content) <= 1300
    /\ derived_outturn >= 8000
    /\ OrZero(self.pods) = 0
    /\ OrZero(self.husks) = 0
    /\ OrZero(self.stones) = 0
    /\ OrZero(self.below_screen_12) <= 100

\* Faulty variant, for sensitivity checks: the penalty taken with the wrong sign (price += instead of -=).
MoisturePenalty_WrongSign(moisture, reference_price) ==
    IF moisture >= 1400
    THEN DecNeg(DecFrac((moisture - 1400) * reference_price * 2))
    ELSE Dec(0)

\* Moisture penalty (>= 14): what compute_final_price subtracts from the
\* price, (moisture - 14) * reference_price * 0.002.
MoisturePenalty(moisture, reference_price) ==
    IF moisture >= 1400
    THEN DecFrac((moisture - 1400) * reference_price * 2)
    ELSE Dec(0)

\* Faulty variant, for sensitivity checks: the low-outturn deduction measured from 80 instead of 78.
OutturnAdjustment_From80(derived_outturn) ==
    IF derived_outturn < 7800
    THEN -((8000 - derived_outturn) * 50)
    ELSE IF derived_outturn > 8200 THEN (derived_outturn - 8200) * 50 ELSE 0

\* Faulty variant, for sensitivity checks: no premium above 82.
OutturnAdjustment_NoPremium(derived_outturn) ==
    IF derived_outturn < 7800 THEN -((7800 - derived_outturn) * 50) ELSE 0

\* Derived outturn adjustments: what compute_final_price adds to the price.
OutturnAdjustment(derived_outturn) ==
    IF derived_outturn < 7800
    THEN -((7800 - derived_outturn) * 50)
    ELSE IF derived_outturn > 8200 THEN (derived_outturn - 8200) * 50 ELSE 0

\* The price of compute_final_price before the final clamp2 and floor, for
\* an instance that passed the None guard; derived_outturn is the number
\* compute_derived_outturn returned.
RawPrice(self, derived_outturn) ==
    LET reference_price == self.ref_price[1]
        moisture == OrZero(self.moisture_content)
        group1 == OrZero(self.group1_defects)
        group2 == OrZero(self.group2_defects)
        below_screen == OrZero(self.below_screen_12)
        pods == OrZero(self.pods)
        husks == OrZero(self.husks)
        stones == OrZero(self.stones)
        p0 == Dec(reference_price)
        p1 == IF bonus(self, derived_outturn) THEN DecAdd(p0, Dec(200000)) ELSE p0
        p2 == DecSub(p1, MoisturePenalty(moisture, reference_price))
        p3 == IF group1 > 400 THEN DecSub(p2, Dec((group1 - 400) * 50)) ELSE p2
        p4 == IF group2 > 1000 THEN DecSub(p3, Dec((group2 - 1000) * 20)) ELSE p3
        p5 == DecAdd(p4, Dec(OutturnAdjustment(derived_outturn)))
        p6 == DecSub(p5, Dec(pods * 10))
        p7 == DecSub(p6, Dec(husks * 10))
        p8 == DecSub(p7, Dec(stones * 20))
        p9 == IF below_screen > 100 THEN DecSub(p8, Dec((below_screen - 100) * 30)) ELSE p8
        p10 == IF self.discretion # None THEN DecAdd(p9, Dec(self.discretion[1])) ELSE p9
    IN  p10

\* Faulty variant, for sensitivity checks: the guard forgets the rejection reasons.
compute_final_price_IgnoresReasons(self) ==
    LET derived_outturn == compute_derived_outturn(self)
    IN  IF derived_outturn = None \/ self.ref_price = None
        THEN None
        ELSE Some(Max(0, clamp2(Some(RawPrice(self, derived_outturn[1])))[1]))

\* Faulty variant, for sensitivity checks: the result is rounded but not floored at 0.00.
compute_final_price_NoFloor(self) ==
    LET reasons == compute_rejection_reasons(self)
        derived_outturn == compute_derived_outturn(self)
    IN  IF reasons # <<>> \/ derived_outturn = None \/ self.ref_price = None
        THEN None
        ELSE clamp2(Some(RawPrice(self, derived_outturn[1])))

compute_final_price(self) ==
    LET reasons == compute_rejection_reasons(self)
        derived_outturn == compute_derived_outturn(self)
    IN  IF reasons # <<>> \/ derived_outturn = None \/ self.ref_price = None
        THEN None
        ELSE Some(Max(0, clamp2(Some(RawPrice(self, derived_outturn[1])))[1]))

\* "\n".join(reasons)
RECURSIVE Join(_)
Join(reasons) ==
    IF Len(reasons) <= 1
    THEN reasons
    ELSE <<Head(reasons), <<"\n">> >> \o Join(Tail(reasons))

\* Faulty variant, for sensitivity checks: the decision taken from the outturn gate alone.
Decide_ByOutturn(reasons, derived_outturn) ==
    IF derived_outturn = None THEN "Rejected" ELSE "Accepted"

\* The decision branch of refresh_computed_fields.
Decide(reasons, derived_outturn) ==
    IF reasons # <<>>
    THEN "Rejected"
    ELSE IF derived_outturn # None THEN "Accepted" ELSE "Pending"

\* Faulty variant, for sensitivity checks: the fired reasons are added to the text already stored.
refresh_computed_fields_Appends(self) ==
    LET derived_outturn == compute_derived_outturn(self)
        reasons == compute_rejection_reasons(self)
    IN  [self EXCEPT !.clean_outturn = compute_clean_outturn(self),
                     !.derived_outturn = derived_outturn,
                     !.decision = Decide(reasons, derived_outturn),
                     !.decision_reasons =
                         IF self.decision_reasons = <<>> \/ reasons = <<>>
                         THEN self.decision_reasons \o Join(reasons)
                         ELSE self.decision_reasons \o << <<"\n">> >> \o Join(reasons),
                     !.final_price = compute_final_price(self)]

refresh_computed_fields(self) ==
    LET derived_outturn == compute_derived_outturn(self)
        reasons == compute_rejection_reasons(self)
    IN  [self EXCEPT !.clean_outturn = compute_clean_outturn(self),
                     !.derived_outturn = derived_outturn,
                     !.decision = Decide(reasons, derived_outturn),
                     !.decision_reasons = Join(reasons),
                     !.final_price = compute_final_price(self)]

-----------------------------------------------------------------------------
(* Assessment: instances *)

\* The fields an AssessmentForm binds (its Meta.fields).
FormFields ==
    {"moisture_content", "group1_defects", "group2_defects", "below_screen_12",
     "pods", "husks", "stones", "fm", "discretion", "ref_price", "offered_price"}

\* Assessment(...): a new in-memory instance.  Inputs without a default are
\* None; the cached results have the field defaults.
NewAssessment ==
    [pk |-> None, coffee |-> None,
     ref_price |-> None, discretion |-> Some(0),
     moisture_content |-> None, group1_defects |-> None, group2_defects |-> None,
     below_screen_12 |-> None, pods |-> None, husks |-> None, stones |-> None,
     fm |-> Some(0), offered_price |-> Some(0),
     clean_outturn |-> None, derived_outturn |-> None, final_price |-> None,
     decision |-> "Pending", decision_reasons |-> <<>>]

\* construct_instance: the form's cleaned data written onto the instance.
WithInputs(self, data) ==
    [k \in DOMAIN self |-> IF k \in DOMAIN data THEN data[k] ELSE self[k]]

-----------------------------------------------------------------------------
(* Evaluation of one in-memory instance: the inputs are drawn in the initial *)
(* state and refresh_computed_fields is applied to them.                     *)

EvalMoisture == {Some(1200), Some(1300), Some(1301), Some(1400), Some(1450), Some(1650), Some(1651)}
EvalGroup1 == {Some(50), Some(100), Some(101), Some(1000), Some(1001)}
EvalGroup2 == {Some(300), Some(500), Some(501), Some(2500), Some(2501)}
EvalBelowScreen == {None, Some(50), Some(100), Some(300), Some(301), Some(400)}
EvalPods == {Some(0), Some(200), Some(600), Some(601)}
EvalHusks == {Some(0), Some(601)}
EvalStones == {Some(0), Some(401), Some(601)}
EvalRefPrice == {None, Some(0), Some(500), Some(500000)}
EvalDiscretion == {None, Some(0), Some(5000000), Some(-100000000)}

EvalInputs ==
    [moisture_content : EvalMoisture, group1_defects : EvalGroup1,
     group2_defects : EvalGroup2, below_screen_12 : EvalBelowScreen,
     pods : EvalPods, husks : EvalHusks, stones : EvalStones,
     ref_price : EvalRefPrice, discretion : EvalDiscretion]

EvalInit ==
    /\ obj \in {WithInputs(NewAssessment, d) : d \in EvalInputs}
    /\ pc = "new"
    /\ table = {}
    /\ nextPk = 1
    /\ purchases = <<>>
    /\ req = <<>>
    /\ inventory = <<>>
    /\ sales = {}
    /\ accounts = <<>>
    /\ txns = {}
    /\ ops = 0

Refresh ==
    /\ pc = "new"
    /\ obj' = refresh_computed_fields(obj)
    /\ pc' = "refreshed"
    /\ UNCHANGED <<table, nextPk, purchases, req, inventory, sales, accounts, txns, ops>>

\* refresh_computed_fields called once more on the refreshed instance.
RefreshAgain ==
    /\ pc = "refreshed"
    /\ obj' = refresh_computed_fields(obj)
    /\ UNCHANGED <<pc, table, nextPk, purchases, req, inventory, sales, accounts, txns, ops>>

EvalNext == Refresh \/ RefreshAgain

SpecEval == EvalInit /\ [][EvalNext]_vars

-----------------------------------------------------------------------------
(* Assessment: validation and persistence *)

PercentFields ==
    {"moisture_content", "group1_defects", "group2_defects", "below_screen_12",
     "pods", "husks", "stones", "fm"}

\* Fields declared blank=True: an empty value skips their validators.
BlankFields == {"discretion", "fm", "offered_price"}

\* One field's validators (MinValueValidator / MaxValueValidator) on a value
\* that is present.  Every value of this model fits max_digits.
ValidatorsPass(name, v) ==
    IF name \in PercentFields THEN 0 <= v /\ v <= 10000
    ELSE IF name \in {"ref_price", "offered_price"} THEN 0 <= v
    ELSE TRUE

\* Field cleaning shared by the form's fields and Model.clean_fields: an
\* empty value is an error unless the field is blank=True.
FieldClean(name, x) ==
    IF x = None THEN name \in BlankFields ELSE ValidatorsPass(name, x[1])

\* AssessmentForm.is_valid() on the submitted data.
is_valid(data) == \A name \in FormFields : FieldClean(name, data[name])

\* The rows another instance would collide with on the unique `coffee`.
Duplicates(self, rows) == {row \in rows : row.coffee = self.coffee /\ row.pk # self.pk}

\* Faulty variant, for sensitivity checks: full_clean without the field validators.
full_clean_NoValidators(self, rows) ==
    /\ \A name \in FormFields : self[name] # None \/ name \in BlankFields
    /\ self.coffee # None
    /\ Duplicates(self, rows) = {}

\* Model.full_clean() as save() calls it: clean_fields, clean (coffee is set)
\* and validate_unique, which reads the table.
full_clean(self, rows) ==
    /\ \A name \in FormFields : FieldClean(name, self[name])
    /\ self.coffee # None
    /\ Duplicates(self, rows) = {}

\* Faulty variant, for sensitivity checks: the cached results are computed only for a new instance.
save_OnlyWhenNew(self) ==
    IF self.pk = None
    THEN [refresh_computed_fields(self) EXCEPT
              !.fm = Some(self.stones[1] + self.husks[1] + self.pods[1])]
    ELSE [self EXCEPT !.fm = Some(self.stones[1] + self.husks[1] + self.pods[1])]

\* Faulty variant, for sensitivity checks: fm is stored as it was submitted.
save_KeepsFm(self) == refresh_computed_fields(self)

\* Assessment.save() after full_clean passed and before the row is written:
\* refresh_computed_fields, then fm = stones + husks + pods.
save(self) ==
    [refresh_computed_fields(self) EXCEPT
         !.fm = Some(self.stones[1] + self.husks[1] + self.pods[1])]

\* The columns declared without null=True.
NotNullColumns == FormFields \cup {"coffee"}

NotNullOk(self) == \A name \in NotNullColumns : self[name] # None

\* Faulty variant, for sensitivity checks: the table without the unique index on coffee_id.
CanInsert_NoUnique(self, rows) == NotNullOk(self)

\* Whether the database accepts INSERT of the instance: NOT NULL columns and
\* the unique index that OneToOneField puts on coffee_id.
CanInsert(self, rows) ==
    /\ NotNullOk(self)
    /\ \A row \in rows : row.coffee # self.coffee

\* Whether the database accepts UPDATE of the instance's row.
CanUpdate(self, rows) == NotNullOk(self)

-----------------------------------------------------------------------------
(* Stock: inventory/models.py and the purchase side of inventory/signals.py. *)
(* Quantities are hundredths of a kilogram, costs are hundredths of UGX; a   *)
(* CoffeePurchase keeps its quantity in whole kilograms, as its integer      *)
(* column does.                                                              *)

\* The sum of a function's values.
RECURSIVE FnSum(_)
FnSum(f) ==
    IF DOMAIN f = {} THEN 0
    ELSE LET x == CHOOSE x \in DOMAIN f : TRUE
         IN  f[x] + FnSum([y \in DOMAIN f \ {x} |-> f[y]])

\* q2 of the quotient n / d (d > 0): two decimal places, ROUND_HALF_UP, as
\* a count of hundredths when n / d is one.
q2(n, d) ==
    IF n >= 0 THEN (2 * n + d) \div (2 * d) ELSE -((2 * (-n) + d) \div (2 * d))

\* getattr(o, name, None)
Getattr(o, name) == IF name \in DOMAIN o THEN Some(o[name]) ELSE None

\* Python's `a or b` on optional numbers: None and 0 are falsy.
Or(a, b) == IF a # None /\ a[1] # 0 THEN a ELSE b

\* A row that get_or_create inserts: the column defaults.
NewBucket == [quantity |-> 0, average_unit_cost |-> 0, current_value |-> 0]

\* CoffeeInventory.objects.get_or_create(coffee_category=..., coffee_type=...)
get_or_create(inv, key) == IF key \in DOMAIN inv THEN inv ELSE inv @@ (key :> NewBucket)

\* CoffeeInventory.save(): current_value = q2(quantity * average_unit_cost).
CoffeeInventory_save(self) ==
    [self EXCEPT !.current_value = q2(self.quantity * self.average_unit_cost, 100)]

\* The weighted-average branch of update_inventory (q_delta > 0).
new_avg(self, q_delta, add_cost) ==
    IF self.quantity <= 0
    THEN IF add_cost > 0 THEN q2(add_cost * 100, q_delta) ELSE self.average_unit_cost
    ELSE LET total_existing_cost == q2(self.quantity * self.average_unit_cost, 100)
         IN  q2((total_existing_cost + add_cost) * 100, self.quantity + q_delta)

\* Faulty variant, for sensitivity checks: the quantity is written before the stock check.
update_inventory_ChecksLate(self, quantity_change, cost_change) ==
    LET new_qty == self.quantity + quantity_change
        written == CoffeeInventory_save([self EXCEPT !.quantity = new_qty])
    IN  [raised |-> new_qty < 0, row |-> written]

\* CoffeeInventory.update_inventory(quantity_change, cost_change): whether it
\* raised ValueError, and the row as the database holds it afterwards.
update_inventory(self, quantity_change, cost_change) ==
    LET q_delta == quantity_change
        new_qty == self.quantity + q_delta
    IN  IF new_qty < 0
        THEN [raised |-> TRUE, row |-> self]
        ELSE [raised |-> FALSE,
              row |-> CoffeeInventory_save(
                          [self EXCEPT
                               !.quantity = new_qty,
                               !.average_unit_cost =
                                   IF q_delta > 0
                                   THEN new_avg(self, q_delta, cost_change)
                                   ELSE self.average_unit_cost])]

\* extract_purchase_values(purchase): None when it raises ValueError, else
\* the quantity (hundredths of a kilogram), the total cost, the category and
\* the type.  A purchase is the record of its model's columns, so an
\* attribute the model does not declare is absent.
extract_purchase_values(purchase) ==
    LET qty == Or(Getattr(purchase, "quantity"),
                  Or(Getattr(purchase, "quantity_kg"),
                     Or(Getattr(purchase, "net_weight_kg"), Getattr(purchase, "weight_kg"))))
        total_cost == Or(Getattr(purchase, "total_cost"), Getattr(purchase, "total_price"))
        unit_price == Or(Getattr(purchase, "unit_price"), Getattr(purchase, "price_per_kg"))
        category == Getattr(purchase, "coffee_category")
        ctype == Getattr(purchase, "coffee_type")
    IN  IF qty = None THEN None
        ELSE IF total_cost = None /\ unit_price = None THEN None
        ELSE IF category = None \/ ctype = None THEN None
        ELSE IF category[1] = "" \/ ctype[1] = "" THEN None
        ELSE Some([qty |-> qty[1] * 100,
                   total_cost |-> IF total_cost = None
                                  THEN unit_price[1] * qty[1]
                                  ELSE total_cost[1],
                   category |-> category[1],
                   ctype |-> ctype[1]])

\* Faulty variant, for sensitivity checks: the lot is added on every save, whatever the
\* decision, at no cost.
apply_inventory_on_assessment_accept_Always(instance, purchase, inv) ==
    LET key == <<purchase.coffee_category, purchase.coffee_type>>
        created == get_or_create(inv, key)
    IN  [created EXCEPT ![key] = update_inventory(created[key], purchase.quantity * 100, 0).row]

\* _apply_inventory_on_assessment_accept, the post_save receiver of
\* Assessment: the inventory table after it ran for the saved instance and
\* its purchase.
apply_inventory_on_assessment_accept(instance, purchase, inv) ==
    LET values == extract_purchase_values(purchase)
    IN  IF instance.decision # "Accepted" THEN inv
        ELSE IF instance.coffee = None THEN inv
        ELSE IF values = None THEN inv
        ELSE LET key == <<values[1].category, values[1].ctype>>
                 created == get_or_create(inv, key)
                 result == update_inventory(created[key], values[1].qty, values[1].total_cost)
             IN  [created EXCEPT ![key] = result.row]

-----------------------------------------------------------------------------
(* Supplier accounts: the Assessment receivers of store/signals.py.  A       *)
(* SupplierAccount is keyed by its supplier (the relation is one-to-one).    *)

\* _q2(x): (x or 0).quantize(Decimal("0.1")) under the default context, that
\* is one decimal place, ROUND_HALF_EVEN; x and the result in hundredths.
store_q2(x) ==
    LET t == x \div 10
        r == x % 10
    IN  IF r < 5 THEN 10 * t
        ELSE IF r > 5 THEN 10 * (t + 1)
        ELSE IF t % 2 = 0 THEN 10 * t ELSE 10 * (t + 1)

\* Assessment.analysis_price_ugx
analysis_price_ugx(self) == self.offered_price

\* total_payable(assessment), for the purchase the assessment points to.
total_payable(assessment, purchase) ==
    store_q2(OrZero(analysis_price_ugx(assessment)) * purchase.quantity)

\* _purchase_payable_amount(purchase) of the finance dashboard, for the
\* purchase's assessment if it has one (None if not).
purchase_payable_amount(purchase, assessment) ==
    IF assessment = None THEN 0
    ELSE IF analysis_price_ugx(assessment[1]) = None THEN 0
    ELSE analysis_price_ugx(assessment[1])[1] * purchase.quantity

\* cache_previous_payable, the pre_save receiver: the payable of the row the
\* table holds for the instance, 0 for a new instance.
cache_previous_payable(instance, rows, purchs) ==
    IF instance.pk # None /\ \E row \in rows : row.pk = instance.pk
    THEN LET prev == CHOOSE row \in rows : row.pk = instance.pk
         IN  total_payable(prev, purchs[prev.coffee[1]])
    ELSE 0

\* post_assessment_to_account, the post_save receiver, with its on_commit
\* callback: the accounts after the delta is added to the supplier's balance.
post_assessment_to_account(instance, prev_payable, purchs, accts) ==
    LET purchase == purchs[instance.coffee[1]]
        delta == store_q2(total_payable(instance, purchase) - prev_payable)
        created == IF purchase.supplier \in DOMAIN accts THEN accts
                   ELSE accts @@ (purchase.supplier :> 0)
    IN  IF delta = 0 THEN accts
        ELSE [created EXCEPT ![purchase.supplier] = @ + delta]

-----------------------------------------------------------------------------
(* The assessment_create view *)

Requests == {"r1", "r2"}

Purchases == {"p1", "p2"}

\* Most primary keys the table ever hands out.
MaxPk == 3

\* Scenario A's form: an accepted lot.
PerfectForm ==
    [moisture_content |-> Some(1200), group1_defects |-> Some(50),
     group2_defects |-> Some(300), below_screen_12 |-> Some(50),
     pods |-> Some(0), husks |-> Some(0), stones |-> Some(0), fm |-> Some(0),
     discretion |-> Some(0), ref_price |-> Some(500000), offered_price |-> Some(0)]

\* The forms a request may submit: accepted lots, a lot rejected on moisture
\* (its outturn still computed), a lot behind the below-screen-12 gate, an
\* out-of-range percentage, and an emptied discretion.
FormData ==
    {PerfectForm,
     [PerfectForm EXCEPT !.group1_defects = Some(1000), !.husks = Some(100),
                         !.stones = Some(300), !.fm = Some(5000),
                         !.discretion = Some(-5000), !.offered_price = Some(450000)],
     [PerfectForm EXCEPT !.moisture_content = Some(1700), !.pods = Some(200),
                         !.offered_price = Some(300005)],
     [PerfectForm EXCEPT !.below_screen_12 = Some(400)],
     [PerfectForm EXCEPT !.pods = Some(10100)],
     [PerfectForm EXCEPT !.discretion = None]}

Idle == [pc |-> "idle", coffee_purchase |-> None, quantity |-> None,
         assessment |-> None]

Suppliers == {"s1", "s2"}

\* The purchases awaiting assessment: the columns of CoffeePurchase that the
\* receivers read (quantity in whole kilograms).
StoredPurchases ==
    [p \in Purchases |->
        IF p = "p1"
        THEN [assessment_needed |-> TRUE, supplier |-> "s1",
              coffee_category |-> "GR", coffee_type |-> "AR", quantity |-> 100]
        ELSE [assessment_needed |-> TRUE, supplier |-> "s2",
              coffee_category |-> "PA", coffee_type |-> "RB", quantity |-> 7]]

\* The stock on hand when the model starts: rows entered through the admin.
OpeningStock ==
    (<<"GR", "ARABICA">> :>
         CoffeeInventory_save([NewBucket EXCEPT !.quantity = 1000,
                                                !.average_unit_cost = 20000]))
    @@ (<<"GR", "ROBUSTA">> :>
         CoffeeInventory_save([NewBucket EXCEPT !.quantity = 500,
                                                !.average_unit_cost = 15000]))

Init ==
    /\ obj = NewAssessment
    /\ pc = "off"
    /\ table = {}
    /\ nextPk = 1
    /\ purchases = StoredPurchases
    /\ req = [r \in Requests |-> Idle]
    /\ inventory = OpeningStock
    /\ sales = {}
    /\ accounts = [s \in Suppliers |-> 0]
    /\ txns = {}
    /\ ops = 0

\* get_object_or_404(CoffeePurchase, pk=pk), which loads the purchase's
\* columns into the request, then
\* Assessment.objects.filter(coffee=coffee_purchase).first(), or a new
\* instance when there is none.
Lookup(r, p) ==
    /\ req[r].pc = "idle"
    /\ \E found \in (IF \E row \in table : row.coffee = Some(p)
                     THEN {row \in table : row.coffee = Some(p)}
                     ELSE {NewAssessment}) :
           req' = [req EXCEPT ![r] = [pc |-> "looked", coffee_purchase |-> Some(p),
                                       quantity |-> Some(purchases[p].quantity),
                                       assessment |-> Some(found)]]
    /\ UNCHANGED <<obj, pc, table, nextPk, purchases, inventory, sales, accounts, txns, ops>>

\* A GET: the form is rendered and the request ends.
Get(r) ==
    /\ req[r].pc = "looked"
    /\ req' = [req EXCEPT ![r] = Idle]
    /\ UNCHANGED <<obj, pc, table, nextPk, purchases, inventory, sales, accounts, txns, ops>>

\* AssessmentForm.__init__: a new instance is bound to the purchase.
Bound(r) ==
    LET a == req[r].assessment[1]
    IN  IF a.pk = None THEN [a EXCEPT !.coffee = req[r].coffee_purchase] ELSE a

\* A POST whose form does not validate: the errors are shown, nothing is saved.
PostInvalid(r, data) ==
    /\ req[r].pc = "looked"
    /\ ~is_valid(data)
    /\ req' = [req EXCEPT ![r] = Idle]
    /\ UNCHANGED <<obj, pc, table, nextPk, purchases, inventory, sales, accounts, txns, ops>>

\* A valid POST whose assessment.save() raises in full_clean (another row
\* already holds the purchase): caught by the view, nothing is saved.
PostNotClean(r, data) ==
    /\ req[r].pc = "looked"
    /\ is_valid(data)
    /\ ~full_clean(WithInputs(Bound(r), data), table)
    /\ req' = [req EXCEPT ![r] = Idle]
    /\ UNCHANGED <<obj, pc, table, nextPk, purchases, inventory, sales, accounts, txns, ops>>

\* A valid POST up to the database write: form.save(commit=False), then
\* assessment.save() runs full_clean and computes the cached fields.
Post(r, data) ==
    /\ req[r].pc = "looked"
    /\ is_valid(data)
    /\ full_clean(WithInputs(Bound(r), data), table)
    /\ req' = [req EXCEPT ![r].pc = "saving",
                          ![r].assessment = Some(save(WithInputs(Bound(r), data)))]
    /\ UNCHANGED <<obj, pc, table, nextPk, purchases, inventory, sales, accounts, txns, ops>>

\* instance.coffee as the post_save receivers see it: the purchase object the
\* request loaded, whose quantity is the one read at that time.
Loaded(r) ==
    [purchases EXCEPT ![req[r].coffee_purchase[1]].quantity = req[r].quantity[1]]

\* coffee_purchase.assessment_needed = False, saved in the same transaction.
MarkAssessed(p) == [purchases EXCEPT ![p].assessment_needed = FALSE]

\* super().save() of a new instance: pre_save, INSERT, the post_save
\* receivers, and the transaction commits (its on_commit callbacks run).
WriteInsert(r) ==
    LET a == req[r].assessment[1]
        written == [a EXCEPT !.pk = Some(nextPk)]
    IN  /\ req[r].pc = "saving"
        /\ a.pk = None
        /\ nextPk <= MaxPk
        /\ CanInsert(a, table)
        /\ table' = table \cup {written}
        /\ nextPk' = nextPk + 1
        /\ inventory' = apply_inventory_on_assessment_accept(
                             written, Loaded(r)[written.coffee[1]], inventory)
        /\ accounts' = post_assessment_to_account(
                            written, cache_previous_payable(a, table, purchases),
                            Loaded(r), accounts)
        /\ purchases' = MarkAssessed(req[r].coffee_purchase[1])
        /\ req' = [req EXCEPT ![r] = Idle]
        /\ UNCHANGED <<obj, pc, sales, txns, ops>>

\* super().save() of a stored instance: pre_save, UPDATE of every column of
\* its row, the post_save receivers, and the commit.
WriteUpdate(r) ==
    LET a == req[r].assessment[1]
    IN  /\ req[r].pc = "saving"
        /\ a.pk # None
        /\ CanUpdate(a, table)
        /\ table' = {row \in table : row.pk # a.pk} \cup {a}
        /\ inventory' = apply_inventory_on_assessment_accept(
                             a, Loaded(r)[a.coffee[1]], inventory)
        /\ accounts' = post_assessment_to_account(
                            a, cache_previous_payable(a, table, purchases),
                            Loaded(r), accounts)
        /\ purchases' = MarkAssessed(req[r].coffee_purchase[1])
        /\ req' = [req EXCEPT ![r] = Idle]
        /\ UNCHANGED <<obj, pc, nextPk, sales, txns, ops>>

\* The database refuses the write (IntegrityError): the transaction rolls
\* back and the view reports the error.
WriteFails(r) ==
    LET a == req[r].assessment[1]
    IN  /\ req[r].pc = "saving"
        /\ IF a.pk = None THEN ~CanInsert(a, table) ELSE ~CanUpdate(a, table)
        /\ req' = [req EXCEPT ![r] = Idle]
        /\ UNCHANGED <<obj, pc, table, nextPk, purchases, inventory, sales, accounts, txns, ops>>

Next ==
    \E r \in Requests :
        \/ \E p \in Purchases : Lookup(r, p)
        \/ Get(r)
        \/ \E data \in FormData : PostInvalid(r, data)
        \/ \E data \in FormData : PostNotClean(r, data)
        \/ \E data \in FormData : Post(r, data)
        \/ WriteInsert(r)
        \/ WriteUpdate(r)
        \/ WriteFails(r)

Spec == Init /\ [][Next]_vars

-----------------------------------------------------------------------------
(* Properties of the evaluation *)

Refreshed == pc = "refreshed"

\* The reason strings of a joined decision_reasons text, one per line.
Lines(text) == [i \in 1..((Len(text) + 1) \div 2) |-> text[2 * i - 1]]

\* C1: compute_final_price returns null whenever a rejection reason fires, or
\* derived_outturn is null, or the reference price is missing, whatever the
\* other inputs (discretion included) are.
C1_NullPrice ==
    Refreshed =>
        ((\/ obj.decision_reasons # <<>>
          \/ obj.derived_outturn = None
          \/ obj.ref_price = None) => obj.final_price = None)

\* A lot whose only obstacle is a fired reason: outturn and reference price
\* are there, a discretion is given, and the price is null.
C1_Witness ==
    /\ Refreshed
    /\ obj.decision_reasons # <<>>
    /\ obj.derived_outturn # None
    /\ obj.ref_price = Some(500000)
    /\ obj.discretion = Some(5000000)
    /\ obj.final_price = None

\* C3: final_price is null or a non-negative number of hundredths, the
\* formula's result rounded half-up; a result below zero is stored as 0.00.
C3_NonNegativeRounded ==
    (Refreshed /\ obj.final_price # None) =>
        LET raw == RawPrice(obj, obj.derived_outturn[1])
            fp == obj.final_price[1]
        IN  /\ fp >= 0
            /\ raw.c < 0 => fp = 0
            /\ raw.c >= 0 => /\ fp - raw.c \in {0, 1}
                             /\ fp - raw.c = 1 <=> 2 * raw.f >= Sub

\* A lot whose formula result is negative (a large negative discretion) and
\* whose stored price is 0.00.
C3_Witness ==
    /\ Refreshed
    /\ obj.final_price = Some(0)
    /\ obj.discretion = Some(-100000000)
    /\ RawPrice(obj, obj.derived_outturn[1]).c < 0

\* The threshold checks in the order the claim lists them: text, value, limit.
C6_Checks ==
    LET v(x) == OrZero(x)
    IN  << <<"Below screen 12 {}% > 3%", v(obj.below_screen_12), 300>>,
           <<"Moisture {}% > 16.5%", v(obj.moisture_content), 1650>>,
           <<"Group 1 defects {}% > 10%", v(obj.group1_defects), 1000>>,
           <<"Group 2 defects {}% > 25%", v(obj.group2_defects), 2500>>,
           <<"Pods {}% > 6%", v(obj.pods), 600>>,
           <<"Husks {}% > 6%", v(obj.husks), 600>>,
           <<"Stones {}% > 6%", v(obj.stones), 600>>,
           <<"Pods+Husks+Stones {}% > 6%", v(obj.pods) + v(obj.husks) + v(obj.stones), 600>> >>

C6_Violated(c) == c[2] > c[3]

\* C6: the reasons are exactly the violated checks, in the listed order, each
\* comparison strict; below_screen_12 = 4 gives Rejected, the below-screen-12
\* reason and a null price.
C6_ReasonsExactInOrder ==
    Refreshed =>
        LET violated == SelectSeq(C6_Checks, C6_Violated)
            lines == Lines(obj.decision_reasons)
        IN  /\ Len(lines) = Len(violated)
            /\ \A i \in 1..Len(violated) : lines[i] = <<violated[i][1], violated[i][2]>>
            /\ obj.below_screen_12 = Some(400) =>
                   /\ obj.decision = "Rejected"
                   /\ lines[1] = <<"Below screen 12 {}% > 3%", 400>>
                   /\ obj.final_price = None

\* below_screen_12 = 4 together with values exactly at their thresholds
\* (moisture 16.5, pods 6, group 2 25): only the below-screen-12 reason.
C6_Witness ==
    /\ Refreshed
    /\ obj.below_screen_12 = Some(400)
    /\ obj.moisture_content = Some(1650)
    /\ obj.pods = Some(600) /\ obj.husks = Some(0) /\ obj.stones = Some(0)
    /\ obj.group2_defects = Some(2500)
    /\ obj.group1_defects = Some(1000)
    /\ obj.decision_reasons = << <<"Below screen 12 {}% > 3%", 400>> >>
    /\ obj.decision = "Rejected"

C7_Over(x, base) == IF x - base > 0 THEN x - base ELSE 0

\* C7: compute_derived_outturn is null exactly when below_screen_12 > 3, and
\* otherwise 100 minus the excesses of moisture over 14, group 1 over 4,
\* group 2 over 10, below-screen-12 over 1, minus pods, husks and stones.
C7_DerivedOutturn ==
    Refreshed =>
        LET bs == OrZero(obj.below_screen_12)
        IN  /\ obj.derived_outturn = None <=> bs > 300
            /\ bs <= 300 =>
                   obj.derived_outturn[1]
                     = 10000 - C7_Over(OrZero(obj.moisture_content), 1400)
                             - C7_Over(OrZero(obj.group1_defects), 400)
                             - C7_Over(OrZero(obj.group2_defects), 1000)
                             - (OrZero(obj.pods) + OrZero(obj.husks) + OrZero(obj.stones))
                             - C7_Over(bs, 100)

\* below_screen_12 exactly 3 (not gated) with every excess term at work.
C7_Witness ==
    /\ Refreshed
    /\ obj.below_screen_12 = Some(300)
    /\ obj.moisture_content = Some(1650)
    /\ obj.group1_defects = Some(1000)
    /\ obj.group2_defects = Some(2500)
    /\ obj.pods = Some(200)
    /\ obj.derived_outturn = Some(7250)

\* The claimed formula's whole hundredths: every term but the moisture penalty.
C8_Whole ==
    LET ref == obj.ref_price[1]
        m == OrZero(obj.moisture_content)
        g1 == OrZero(obj.group1_defects)
        g2 == OrZero(obj.group2_defects)
        bs == OrZero(obj.below_screen_12)
        d == obj.derived_outturn[1]
        pods == OrZero(obj.pods)
        husks == OrZero(obj.husks)
        stones == OrZero(obj.stones)
        perfect == /\ g1 <= 100 /\ g2 <= 500 /\ m <= 1300 /\ d >= 8000
                   /\ pods = 0 /\ husks = 0 /\ stones = 0 /\ bs <= 100
    IN  ref
        + (IF perfect THEN 200000 ELSE 0)
        - (IF g1 > 400 THEN (g1 - 400) * 50 ELSE 0)
        - (IF g2 > 1000 THEN (g2 - 1000) * 20 ELSE 0)
        - (IF d < 7800 THEN (7800 - d) * 50 ELSE 0)
        + (IF d > 8200 THEN (d - 8200) * 50 ELSE 0)
        - pods * 10 - husks * 10 - stones * 20
        - (IF bs > 100 THEN (bs - 100) * 30 ELSE 0)
        + OrZero(obj.discretion)

\* The claimed moisture penalty, in 1/Sub of a hundredth.
C8_Penalty ==
    LET m == OrZero(obj.moisture_content)
    IN  IF m >= 1400 THEN (m - 1400) * obj.ref_price[1] * 2 ELSE 0

\* C8: for a non-rejected input with a reference price, final_price is
\* max(0, round2(P)), P being the claimed sum of reference price, bonus,
\* penalties, outturn adjustment and discretion; round2(P) = floor(P + 1/2).
C8_PriceFormula ==
    (Refreshed /\ obj.decision # "Rejected" /\ obj.ref_price # None) =>
        LET r == C8_Whole + ((Sub - 2 * C8_Penalty) \div (2 * Sub))
        IN  obj.final_price = Some(IF r > 0 THEN r ELSE 0)

\* Scenario C: an accepted lot whose derived outturn is 75.00, priced from
\* 5000.00 with no discretion: 5000 - 6*50 - 15*20 - 3*50 - 2*10 - 2*30.
C8_Witness ==
    /\ Refreshed
    /\ obj.decision = "Accepted"
    /\ obj.derived_outturn = Some(7500)
    /\ obj.moisture_content = Some(1300)
    /\ obj.ref_price = Some(500000)
    /\ obj.discretion = Some(0)
    /\ obj.final_price = Some(500000 - 30000 - 30000 - 15000 - 2000 - 6000)

\* Scenario A's inputs.
PerfectLot ==
    /\ obj.moisture_content = Some(1200)
    /\ obj.group1_defects = Some(50)
    /\ obj.group2_defects = Some(300)
    /\ obj.below_screen_12 = Some(50)
    /\ obj.pods = Some(0) /\ obj.husks = Some(0) /\ obj.stones = Some(0)
    /\ obj.ref_price = Some(500000)
    /\ obj.discretion = Some(0)

\* C9 as stated: the perfect lot is Accepted and priced at 7000.00.
C9_Original ==
    (Refreshed /\ PerfectLot) =>
        /\ obj.decision = "Accepted"
        /\ obj.final_price = Some(700000)

\* C9 amended: the perfect lot gets the bonus, is Accepted and is priced at
\* 7900.00: 5000 + 2000 bonus + (100 - 82) * 50 outturn premium.
C9_PerfectLot ==
    (Refreshed /\ PerfectLot) =>
        /\ bonus(obj, obj.derived_outturn[1])
        /\ obj.decision = "Accepted"
        /\ obj.final_price = Some(790000)

\* The perfect lot, evaluated: its derived outturn is 100.00.
C9_Witness ==
    /\ Refreshed
    /\ PerfectLot
    /\ obj.derived_outturn = Some(10000)
    /\ obj.final_price # None

\* The final price of the evaluated instance with its moisture replaced.
C10_PriceAt(m2) == compute_final_price([obj EXCEPT !.moisture_content = m2])

\* Two priced measurements that differ only in moisture, 14 <= m1 < m2.
C10_Pair(m2) ==
    /\ Refreshed
    /\ obj.final_price # None
    /\ obj.moisture_content # None
    /\ m2 # None
    /\ 1400 <= obj.moisture_content[1]
    /\ obj.moisture_content[1] < m2[1]
    /\ C10_PriceAt(m2) # None

\* Every percentage of the evaluated instance was measured (none is None).
C10_Measured ==
    \A k \in {"group1_defects", "group2_defects", "below_screen_12", "pods", "husks", "stones"} :
        obj[k] # None

\* C10 as stated: the price at the higher moisture is strictly lower.
C10_Original ==
    \A m2 \in EvalMoisture :
        (C10_Pair(m2) /\ C10_Measured) => C10_PriceAt(m2)[1] < obj.final_price[1]

\* C10 amended: the price at the higher moisture is never higher, and it is
\* strictly lower whenever it is above 0.00 and the penalty difference
\* (m2 - m1) * reference_price * 0.002 is at least 0.01.
C10_MoistureMonotone ==
    \A m2 \in EvalMoisture :
        C10_Pair(m2) =>
            /\ C10_PriceAt(m2)[1] <= obj.final_price[1]
            /\ (/\ C10_PriceAt(m2)[1] > 0
                /\ (m2[1] - obj.moisture_content[1]) * obj.ref_price[1] * 2 >= Sub)
               => C10_PriceAt(m2)[1] < obj.final_price[1]

\* Moisture 14 against 16.5 on a lot priced from 5000.00: strictly lower, and
\* still above zero.
C10_Witness ==
    /\ Refreshed
    /\ obj.moisture_content = Some(1400)
    /\ obj.ref_price = Some(500000)
    /\ obj.final_price # None
    /\ C10_PriceAt(Some(1650)) # None
    /\ C10_PriceAt(Some(1650))[1] > 0
    /\ C10_PriceAt(Some(1650))[1] < obj.final_price[1]

-----------------------------------------------------------------------------
(* Assessment.save() called on an instance built in code, with numeric       *)
(* inputs of any size: the inputs are drawn in the initial state, and the    *)
(* instance is either evaluated or saved.                                    *)

SaveMoisture == {-100, 1200, 10001}
SavePods == {-1, 0, 10100}
SaveGroup1 == {50, 1001}
SaveBelowScreen == {50, 400}
SaveRefPrice == {-500000, 500000}
SaveOfferedPrice == {-1, 450005}

SaveInputs ==
    {[PerfectForm EXCEPT !.moisture_content = Some(m), !.pods = Some(p),
                         !.group1_defects = Some(g), !.below_screen_12 = Some(b),
                         !.ref_price = Some(rp), !.offered_price = Some(op)] :
        m \in SaveMoisture, p \in SavePods, g \in SaveGroup1,
        b \in SaveBelowScreen, rp \in SaveRefPrice, op \in SaveOfferedPrice}

SaveInit ==
    /\ obj \in {WithInputs([NewAssessment EXCEPT !.coffee = Some("p1")], d) : d \in SaveInputs}
    /\ pc = "new"
    /\ table = {}
    /\ nextPk = 1
    /\ purchases = StoredPurchases
    /\ req = <<>>
    /\ inventory = OpeningStock
    /\ sales = {}
    /\ accounts = [s \in Suppliers |-> 0]
    /\ txns = {}
    /\ ops = 0

\* refresh_computed_fields() on the instance, nothing saved.
Evaluate ==
    /\ pc = "new"
    /\ obj' = refresh_computed_fields(obj)
    /\ pc' = "refreshed"
    /\ UNCHANGED <<table, nextPk, purchases, req, inventory, sales, accounts, txns, ops>>

\* save() whose full_clean raises ValidationError: nothing is computed or written.
SaveRaises ==
    /\ pc = "new"
    /\ ~full_clean(obj, table)
    /\ pc' = "ValidationError"
    /\ UNCHANGED <<obj, table, nextPk, purchases, req, inventory, sales, accounts, txns, ops>>

\* save() that goes through: full_clean, the cached fields, the INSERT and
\* the receivers of Assessment's save signals.
SaveWrites ==
    LET written == [save(obj) EXCEPT !.pk = Some(nextPk)]
    IN  /\ pc = "new"
        /\ full_clean(obj, table)
        /\ CanInsert(written, table)
        /\ obj' = written
        /\ table' = table \cup {written}
        /\ nextPk' = nextPk + 1
        /\ inventory' = apply_inventory_on_assessment_accept(
                             written, purchases[written.coffee[1]], inventory)
        /\ accounts' = post_assessment_to_account(
                            written, cache_previous_payable(obj, table, purchases),
                            purchases, accounts)
        /\ pc' = "saved"
        /\ UNCHANGED <<purchases, req, sales, txns, ops>>

SaveNext == Evaluate \/ SaveRaises \/ SaveWrites

SpecSave == SaveInit /\ [][SaveNext]_vars

-----------------------------------------------------------------------------
\* The cached results of an instance.
Results(self) ==
    <<self.clean_outturn, self.derived_outturn, self.decision_reasons,
      self.decision, self.final_price>>

\* Inputs evaluated a second time, on an instance that already carries results.
C11_Inputs ==
    {PerfectForm, [PerfectForm EXCEPT !.moisture_content = Some(1700), !.pods = Some(200)]}

\* C11: evaluation is deterministic and idempotent.  The results of given
\* inputs are the same whether they are evaluated on a fresh instance or on
\* one that already carries the results of other inputs, and
\* refresh_computed_fields called again on a refreshed instance changes none
\* of its fields.
C11_Idempotent ==
    /\ [](Refreshed =>
            \A d \in C11_Inputs :
                Results(refresh_computed_fields(WithInputs(obj, d)))
                    = Results(refresh_computed_fields(WithInputs(NewAssessment, d))))
    /\ [][Refreshed => obj' = obj]_vars

\* A refreshed instance that carries two reasons and a null price, and one
\* that carries a price: both are what a second refresh starts from.
C11_Witness ==
    /\ Refreshed
    /\ Len(Lines(obj.decision_reasons)) >= 2
    /\ obj.derived_outturn # None
    /\ refresh_computed_fields(obj) = obj

-----------------------------------------------------------------------------
(* Properties of saved assessments *)

\* The instances refresh_computed_fields has run on: every stored row and
\* every instance a request is about to write.
Saved == table \cup {req[r].assessment[1] : r \in {q \in Requests : req[q].pc = "saving"}}

\* C2: after refresh_computed_fields (so after every save) the decision is
\* Rejected iff the reasons are non-empty; otherwise Accepted when
\* derived_outturn is non-null and Pending when it is null.
C2_Decision ==
    \A a \in Saved :
        /\ a.decision = "Rejected" <=> a.decision_reasons # <<>>
        /\ a.decision_reasons = <<>> =>
               a.decision = (IF a.derived_outturn # None THEN "Accepted" ELSE "Pending")

\* One stored lot Accepted and another Rejected although its outturn was
\* computed (a moisture reason, no below-screen-12 gate).
C2_Witness ==
    /\ \E a \in table : a.decision = "Accepted" /\ a.decision_reasons = <<>>
    /\ \E a \in table : /\ a.decision = "Rejected"
                        /\ a.derived_outturn # None
                        /\ a.decision_reasons # <<>>

AtMostOnePerPurchase ==
    \A p \in Purchases : Cardinality({row \in table : row.coffee = Some(p)}) <= 1

\* C5: at most one Assessment exists per CoffeePurchase in every reachable
\* state, whatever the interleaving of assessment_create requests; and every
\* key the table ever handed out is still the key of a stored row, so the
\* assessment was created once and later requests updated that record.
C5_OnePerPurchase ==
    /\ AtMostOnePerPurchase
    /\ {row.pk : row \in table} = {Some(k) : k \in 1..(nextPk - 1)}
    /\ Cardinality(table) = nextPk - 1

\* Two requests raced on the first assessment of one purchase: one row was
\* inserted while the other request, which also found none, is about to
\* write its own new instance for the same purchase.
C5_Witness ==
    \E r \in Requests : \E row \in table :
        /\ req[r].pc = "saving"
        /\ req[r].assessment[1].pk = None
        /\ req[r].assessment[1].coffee = row.coffee

-----------------------------------------------------------------------------
\* C13: after every save the stored fm is pods + husks + stones of the same
\* row, whatever fm the form submitted.
C13_ForeignMatter ==
    \A row \in table :
        row.fm = Some(row.pods[1] + row.husks[1] + row.stones[1])

\* The form with husks 1.00 and stones 3.00 submits fm 50.00: its row is
\* stored with fm 4.00.
C13_Witness ==
    \E row \in table, data \in FormData :
        /\ \A name \in FormFields \ {"fm"} : row[name] = data[name]
        /\ data.fm = Some(5000)
        /\ row.fm = Some(400)

-----------------------------------------------------------------------------
\* Whether every input of the instance is inside its field's range: the
\* percentages within 0..100, the two prices not negative.
C12_InRange ==
    /\ \A name \in {"moisture_content", "group1_defects", "group2_defects",
                      "below_screen_12", "pods", "husks", "stones"} :
           obj[name][1] >= 0 /\ obj[name][1] <= 10000
    /\ obj.ref_price[1] >= 0
    /\ obj.offered_price[1] >= 0

-----------------------------------------------------------------------------
\* The bucket a purchase's stock belongs to.
BucketOf(p) == <<purchases[p].coffee_category, purchases[p].coffee_type>>

\* The on-hand quantity of a bucket, 0 when it has no row.
OnHand(inv, key) == IF key \in DOMAIN inv THEN inv[key].quantity ELSE 0

\* C14: a save whose decision is Rejected or Pending leaves the quantity,
\* the average cost and the value of every inventory bucket unchanged.
C14_OnlyAcceptedTouchesStock ==
    [][\A r \in Requests :
          (/\ req[r].pc = "saving"
           /\ req'[r].pc = "idle"
           /\ req[r].assessment[1].decision # "Accepted") => inventory' = inventory]_vars

\* Both purchases have a Rejected assessment stored, one of them written
\* twice (an insert and an update), and the stock is the opening stock.
C14_Witness ==
    /\ \A p \in Purchases :
           \E row \in table : row.coffee = Some(p) /\ row.decision = "Rejected"
    /\ \E r \in Requests :
           /\ req[r].pc = "saving"
           /\ req[r].assessment[1].pk # None
           /\ req[r].assessment[1].decision = "Rejected"
    /\ inventory = OpeningStock

\* C15 as stated: the payable of a lot is final_price times the lot's
\* quantity (zero when final_price is null), in the finance dashboard's
\* amount and in what has been posted to the supplier's account.
C15_PayableFromFinalPrice ==
    /\ \A p \in Purchases :
           LET rows == {row \in table : row.coffee = Some(p)}
               a == IF rows = {} THEN None ELSE Some(CHOOSE row \in rows : TRUE)
           IN  purchase_payable_amount(purchases[p], a)
                   = IF a = None THEN 0
                     ELSE OrZero(a[1].final_price) * purchases[p].quantity
    /\ \A s \in Suppliers :
           accounts[s] =
               FnSum([row \in {row \in table : purchases[row.coffee[1]].supplier = s} |->
                          OrZero(row.final_price) * purchases[row.coffee[1]].quantity])

\* C16 as stated: once an assessment is stored as Accepted, its purchase's
\* quantity is in the bucket of the purchase's category and type.
C16_AcceptedLotInStock ==
    \A row \in table :
        row.decision = "Accepted" =>
            /\ BucketOf(row.coffee[1]) \in DOMAIN inventory
            /\ inventory[BucketOf(row.coffee[1])].quantity
                   >= purchases[row.coffee[1]].quantity * 100

\* C17 as stated: what has been added to a bucket is every lot stored as
\* Accepted (added on its first Accepted save) and no lot twice.
C17_AddedOnce ==
    \A key \in {BucketOf(p) : p \in Purchases} :
        LET added == OnHand(inventory, key) - OnHand(OpeningStock, key)
            lots(rows) == FnSum([row \in {row \in rows : BucketOf(row.coffee[1]) = key} |->
                                     purchases[row.coffee[1]].quantity * 100])
        IN  /\ lots({row \in table : row.decision = "Accepted"}) <= added
            /\ added <= lots(table)

-----------------------------------------------------------------------------
(* CoffeeInventory.update_inventory called on stored buckets: the stock is   *)
(* drawn in the initial state, the calls' arguments at each step.            *)

\* Most stock a bucket is taken to (hundredths of a kilogram).
MaxStock == 1500

\* Most calls made on the stock.
MaxCalls == 3

StockQuantities == {0, 500, 1000}
StockCosts == {0, 20000}
QuantityChanges == {-1000, -500, -300, 0, 250, 500}
CostChanges == {0, 37500, 100000}

InventoryInit ==
    /\ inventory \in
           {(<<"GR", "ARABICA">> :>
                 CoffeeInventory_save([NewBucket EXCEPT !.quantity = q,
                                                        !.average_unit_cost = c])) :
               q \in StockQuantities, c \in StockCosts}
    /\ obj = None
    /\ pc = "off"
    /\ table = {}
    /\ nextPk = 1
    /\ purchases = <<>>
    /\ req = <<>>
    /\ sales = {}
    /\ accounts = <<>>
    /\ txns = {}
    /\ ops = 0

\* inv.update_inventory(quantity_change, cost_change) on the bucket's row.
UpdateInventory(key, quantity_change, cost_change) ==
    LET result == update_inventory(inventory[key], quantity_change, cost_change)
    IN  /\ ops < MaxCalls
        /\ inventory[key].quantity + quantity_change <= MaxStock
        /\ obj' = Some([bucket |-> key, quantity_change |-> quantity_change,
                         cost_change |-> cost_change])
        /\ pc' = IF result.raised THEN "ValueError" ELSE "returned"
        /\ inventory' = [inventory EXCEPT ![key] = result.row]
        /\ ops' = ops + 1
        /\ UNCHANGED <<table, nextPk, purchases, req, sales, accounts, txns>>

InventoryNext ==
    \E key \in DOMAIN inventory, q \in QuantityChanges, c \in CostChanges :
        UpdateInventory(key, q, c)

SpecInventory == InventoryInit /\ [][InventoryNext]_vars

\* C18: update_inventory with a quantity_change that would take the on-hand
\* quantity below zero raises ValueError and leaves the bucket's quantity,
\* average_unit_cost and current_value as they were; the quantity of every
\* bucket is never negative.
C18_NoNegativeStock ==
    /\ [](\A key \in DOMAIN inventory : inventory[key].quantity >= 0)
    /\ [][(/\ obj' # None
            /\ inventory[obj'[1].bucket].quantity + obj'[1].quantity_change < 0)
           => (pc' = "ValueError" /\ inventory' = inventory)]_vars

\* An issue of 3.00 kg refused on a bucket that holds 2.50 kg at a
\* weighted-average cost.
C18_Witness ==
    /\ pc = "ValueError"
    /\ obj[1].quantity_change = -300
    /\ inventory[obj[1].bucket].quantity = 250
    /\ inventory[obj[1].bucket].average_unit_cost > 0
    /\ inventory[obj[1].bucket].current_value > 0

-----------------------------------------------------------------------------
(* Sales and stock: the CoffeeSale receivers of inventory/signals.py.  A     *)
(* CoffeeSale row is [pk, coffee_type, quantity_kg]; a save or a delete with *)
(* its receivers is one step.                                                *)

DEFAULT_SALES_CATEGORY == "GR"

\* SALE_TO_INV_TYPE.get(coffee_type, "ARABICA")
SALE_TO_INV_TYPE(coffee_type) ==
    IF coffee_type = "AR" THEN "ARABICA"
    ELSE IF coffee_type = "RB" THEN "ROBUSTA"
    ELSE "ARABICA"

\* extract_sale_key_qty(sale): the bucket and the quantity of a sale.
extract_sale_key_qty(sale) ==
    [key |-> <<DEFAULT_SALES_CATEGORY, SALE_TO_INV_TYPE(sale.coffee_type)>>,
     qty |-> sale.quantity_kg]

\* _sales_pre_save_diff: the adjustments stashed on the instance, in order.
sales_pre_save_diff(instance, rows) ==
    LET new == extract_sale_key_qty(instance)
        deduct == IF new.qty > 0 THEN <<[key |-> new.key, delta |-> -new.qty]>> ELSE <<>>
    IN  IF instance.pk = None THEN deduct
        ELSE IF ~\E row \in rows : row.pk = instance.pk THEN deduct
        ELSE LET prev == CHOOSE row \in rows : row.pk = instance.pk
                 old == extract_sale_key_qty(prev)
             IN  IF old.key = new.key
                 THEN IF new.qty - old.qty # 0
                      THEN <<[key |-> new.key, delta |-> -(new.qty - old.qty)]>>
                      ELSE <<>>
                 ELSE (IF old.qty > 0
                       THEN <<[key |-> old.key, delta |-> old.qty]>>
                       ELSE <<>>) \o deduct

\* One adjustment applied as the receivers do: get_or_create the bucket,
\* update_inventory without a cost, an exception swallowed.
apply_adjustment(adjustment, inv) ==
    LET created == get_or_create(inv, adjustment.key)
    IN  [created EXCEPT ![adjustment.key] =
             update_inventory(created[adjustment.key], adjustment.delta, 0).row]

\* _sales_post_save_apply: the stashed adjustments applied one after another.
RECURSIVE sales_post_save_apply(_, _)
sales_post_save_apply(adjustments, inv) ==
    IF adjustments = <<>> THEN inv
    ELSE sales_post_save_apply(Tail(adjustments),
                               apply_adjustment(Head(adjustments), inv))

\* _sales_post_delete_restore: the deleted sale's quantity given back.
sales_post_delete_restore(instance, inv) ==
    LET old == extract_sale_key_qty(instance)
    IN  IF old.qty <= 0 THEN inv
        ELSE apply_adjustment([key |-> old.key, delta |-> old.qty], inv)

\* Most sales ever recorded.
MaxSales == 2

\* Most saves and deletes of sales.
MaxSaleOps == 4

SaleTypes == {"AR", "RB"}
SaleQuantities == {300, 700, 1500}

SalesInit ==
    /\ inventory = OpeningStock
    /\ sales = {}
    /\ nextPk = 1
    /\ obj = None
    /\ pc = "off"
    /\ table = {}
    /\ purchases = <<>>
    /\ req = <<>>
    /\ accounts = <<>>
    /\ txns = {}
    /\ ops = 0

\* A new CoffeeSale saved: pre_save, INSERT, post_save.
SaleCreate(coffee_type, quantity_kg) ==
    LET instance == [pk |-> None, coffee_type |-> coffee_type, quantity_kg |-> quantity_kg]
    IN  /\ nextPk <= MaxSales
        /\ ops < MaxSaleOps
        /\ sales' = sales \cup {[instance EXCEPT !.pk = Some(nextPk)]}
        /\ nextPk' = nextPk + 1
        /\ inventory' = sales_post_save_apply(sales_pre_save_diff(instance, sales), inventory)
        /\ ops' = ops + 1
        /\ UNCHANGED <<obj, pc, table, purchases, req, accounts, txns>>

\* A stored CoffeeSale saved with another type and/or quantity: pre_save
\* reads the stored row, UPDATE, post_save.
SaleUpdate(sale, coffee_type, quantity_kg) ==
    LET instance == [sale EXCEPT !.coffee_type = coffee_type, !.quantity_kg = quantity_kg]
    IN  /\ sale \in sales
        /\ ops < MaxSaleOps
        /\ sales' = (sales \ {sale}) \cup {instance}
        /\ inventory' = sales_post_save_apply(sales_pre_save_diff(instance, sales), inventory)
        /\ ops' = ops + 1
        /\ UNCHANGED <<obj, pc, table, nextPk, purchases, req, accounts, txns>>

\* A stored CoffeeSale deleted: DELETE, post_delete.
SaleDelete(sale) ==
    /\ sale \in sales
    /\ ops < MaxSaleOps
    /\ sales' = sales \ {sale}
    /\ inventory' = sales_post_delete_restore(sale, inventory)
    /\ ops' = ops + 1
    /\ UNCHANGED <<obj, pc, table, nextPk, purchases, req, accounts, txns>>

SalesNext ==
    \/ \E t \in SaleTypes, q \in SaleQuantities : SaleCreate(t, q)
    \/ \E sale \in sales, t \in SaleTypes, q \in SaleQuantities : SaleUpdate(sale, t, q)
    \/ \E sale \in sales : SaleDelete(sale)

SpecSales == SalesInit /\ [][SalesNext]_vars

\* C19 as stated: each bucket's quantity is its opening quantity minus the
\* total quantity_kg of the sales currently stored for that bucket.
C19_Conserved ==
    \A key \in DOMAIN inventory :
        inventory[key].quantity =
            OnHand(OpeningStock, key)
                - FnSum([sale \in {sale \in sales : extract_sale_key_qty(sale).key = key} |->
                             sale.quantity_kg])

-----------------------------------------------------------------------------
(* The supplier ledger: the SupplierTransaction receivers of                 *)
(* store/signals.py.  A SupplierTransaction row is [pk, account, amount,     *)
(* transaction_type]; a save or a delete with its receivers and their        *)
(* on_commit callbacks is one step.                                          *)

DEBIT == "D"
CREDIT == "C"

\* _signed_amount(tx): debit positive, credit negative, through _q2.
signed_amount(tx) ==
    LET amt == store_q2(tx.amount)
    IN  IF tx.transaction_type = DEBIT THEN amt
        ELSE IF tx.transaction_type = CREDIT THEN -amt
        ELSE 0

\* cache_prev_signed_amount, the pre_save receiver: what it stashes on the
\* instance.
cache_prev_signed_amount(instance, rows) ==
    IF instance.pk = None \/ ~\E row \in rows : row.pk = instance.pk
    THEN [prev_signed_amount |-> 0, prev_account_id |-> instance.account]
    ELSE LET prev == CHOOSE row \in rows : row.pk = instance.pk
         IN  [prev_signed_amount |-> signed_amount(prev), prev_account_id |-> prev.account]

\* SupplierAccount.objects.filter(pk=account).update(balance=F("balance") + delta)
add_to_balance(accts, account, delta) ==
    IF account \in DOMAIN accts THEN [accts EXCEPT ![account] = @ + delta] ELSE accts

\* apply_transaction_delta, the post_save receiver, with its on_commit
\* callback: the accounts afterwards.
apply_transaction_delta(instance, cached, accts) ==
    LET new_signed == signed_amount(instance)
        prev_signed == cached.prev_signed_amount
    IN  IF cached.prev_account_id # instance.account
        THEN add_to_balance(add_to_balance(accts, cached.prev_account_id, -prev_signed),
                            instance.account, new_signed)
        ELSE IF new_signed - prev_signed = 0 THEN accts
        ELSE add_to_balance(accts, instance.account, new_signed - prev_signed)

\* reverse_on_delete, the post_delete receiver, with its on_commit callback.
reverse_on_delete(instance, accts) ==
    IF signed_amount(instance) = 0 THEN accts
    ELSE add_to_balance(accts, instance.account, -signed_amount(instance))

\* Most transactions ever recorded.
MaxTxns == 2

\* Most saves and deletes of transactions.
MaxTxOps == 3

TxAmounts == {5, 1000, 1015, 2500}
TxTypes == {DEBIT, CREDIT}

\* The balances when the model starts.
OpeningBalances == [s \in Suppliers |-> IF s = "s1" THEN 0 ELSE 31500]

LedgerInit ==
    /\ accounts = OpeningBalances
    /\ txns = {}
    /\ ops = 0
    /\ nextPk = 1
    /\ obj = None
    /\ pc = "off"
    /\ table = {}
    /\ purchases = <<>>
    /\ req = <<>>
    /\ inventory = <<>>
    /\ sales = {}

\* A new SupplierTransaction saved: pre_save, INSERT, post_save, commit.
TxCreate(account, amount, transaction_type) ==
    LET instance == [pk |-> None, account |-> account, amount |-> amount,
                     transaction_type |-> transaction_type]
        written == [instance EXCEPT !.pk = Some(nextPk)]
    IN  /\ nextPk <= MaxTxns
        /\ ops < MaxTxOps
        /\ txns' = txns \cup {written}
        /\ nextPk' = nextPk + 1
        /\ accounts' = apply_transaction_delta(
                            written, cache_prev_signed_amount(instance, txns), accounts)
        /\ ops' = ops + 1
        /\ UNCHANGED <<obj, pc, table, purchases, req, inventory, sales>>

\* A stored SupplierTransaction saved with another account, amount and/or
\* type: pre_save reads the stored row, UPDATE, post_save, commit.
TxUpdate(tx, account, amount, transaction_type) ==
    LET instance == [tx EXCEPT !.account = account, !.amount = amount,
                               !.transaction_type = transaction_type]
    IN  /\ tx \in txns
        /\ ops < MaxTxOps
        /\ txns' = (txns \ {tx}) \cup {instance}
        /\ accounts' = apply_transaction_delta(
                            instance, cache_prev_signed_amount(instance, txns), accounts)
        /\ ops' = ops + 1
        /\ UNCHANGED <<obj, pc, table, nextPk, purchases, req, inventory, sales>>

\* A stored SupplierTransaction deleted: DELETE, post_delete, commit.
TxDelete(tx) ==
    /\ tx \in txns
    /\ ops < MaxTxOps
    /\ txns' = txns \ {tx}
    /\ accounts' = reverse_on_delete(tx, accounts)
    /\ ops' = ops + 1
    /\ UNCHANGED <<obj, pc, table, nextPk, purchases, req, inventory, sales>>

LedgerNext ==
    \/ \E a \in Suppliers, m \in TxAmounts, t \in TxTypes : TxCreate(a, m, t)
    \/ \E tx \in txns, a \in Suppliers, m \in TxAmounts, t \in TxTypes : TxUpdate(tx, a, m, t)
    \/ \E tx \in txns : TxDelete(tx)

SpecLedger == LedgerInit /\ [][LedgerNext]_vars

\* C20 as stated: every account's balance has changed by the sum of the
\* signed amounts of the transactions now on it, debit positive and credit
\* negative.
C20_BalanceIsSum ==
    \A a \in DOMAIN accounts :
        accounts[a] - OpeningBalances[a] =
            FnSum([tx \in {tx \in txns : tx.account = a} |->
                       IF tx.transaction_type = DEBIT THEN tx.amount ELSE -tx.amount])

-----------------------------------------------------------------------------
(* Assessment saves with the purchase's quantity edited in between *)

MaxEdits == 2

\* The quantities an edit of a purchase can enter, in whole kilograms.
EditQuantities == {7, 50, 100}

\* purchase_list, a POST with purchase_id: the purchase is loaded, the form's
\* quantity is set and the row is saved. No receiver listens to
\* CoffeePurchase saves.
EditQuantity(p, q) ==
    /\ ops < MaxEdits
    /\ purchases[p].quantity # q
    /\ purchases' = [purchases EXCEPT ![p].quantity = q]
    /\ ops' = ops + 1
    /\ UNCHANGED <<obj, pc, table, nextPk, req, inventory, sales, accounts, txns>>

\* One assessor's requests, one after the other, with purchases edited at
\* any moment. (With no second assessor, no row can take the purchase between
\* the lookup and the POST, so full_clean never fails on a valid form.)
PayableNext ==
    \/ \E p \in Purchases : Lookup("r1", p)
    \/ Get("r1")
    \/ \E data \in FormData : PostInvalid("r1", data)
    \/ \E data \in FormData : Post("r1", data)
    \/ WriteInsert("r1")
    \/ WriteUpdate("r1")
    \/ WriteFails("r1")
    \/ \E p \in Purchases, q \in EditQuantities : EditQuantity(p, q)

SpecPayable == Init /\ [][PayableNext]_vars

\* The balance of the purchase's supplier account is the payable of the
\* purchase's stored assessment at the purchase's stored quantity. (Each
\* supplier has one purchase and a purchase at most one assessment, so the
\* balance is the total posted for that assessment.)
PostedIsPayable(p) ==
    \A row \in table :
        row.coffee = Some(p) =>
            accounts[purchases[p].supplier] = total_payable(row, purchases[p])

\* C21 as stated: every assessment save, whatever saves and quantity edits
\* came before it, leaves the total posted to the supplier account for that
\* assessment equal to its current payable (price x the purchase's current
\* quantity).
C21_PostedIsCurrentPayable ==
    [][\A r \in Requests, p \in Purchases :
           req[r].coffee_purchase = Some(p) /\ (WriteInsert(r) \/ WriteUpdate(r))
               => PostedIsPayable(p)']_vars

-----------------------------------------------------------------------------
(* The milling ledger: the MillingTransaction receivers of                  *)
(* milling/signals.py.  A MillingTransaction row is [pk, account, amount,    *)
(* transaction_type, milling_process], its amount in hundredths; a           *)
(* CustomerAccount is named by its customer.  A save or a delete with its    *)
(* receivers is one step.                                                    *)

Customers == {"c1", "c2"}

\* tx_effect(amount, tx_type): DEBIT increases what the customer owes,
\* CREDIT decreases it.
tx_effect(amount, tx_type) ==
    IF tx_type = DEBIT THEN amount
    ELSE IF tx_type = CREDIT THEN -amount
    ELSE 0

\* cache_old_values, the pre_save receiver: what it stashes on the instance.
cache_old_values(instance, rows) ==
    IF instance.pk # None /\ \E row \in rows : row.pk = instance.pk
    THEN LET old == CHOOSE row \in rows : row.pk = instance.pk
         IN  [old_account_id |-> Some(old.account),
              old_effect |-> tx_effect(old.amount, old.transaction_type)]
    ELSE [old_account_id |-> None, old_effect |-> 0]

\* Faulty variant of update_balance_on_save: a transaction moved to another
\* account is not taken off the account it was on.
update_balance_on_save_NoReverse(instance, cached, accts) ==
    LET new_effect == tx_effect(instance.amount, instance.transaction_type)
        delta == IF cached.old_account_id = Some(instance.account)
                 THEN new_effect - cached.old_effect
                 ELSE new_effect
    IN  IF delta # 0 /\ instance.account \in DOMAIN accts
        THEN [accts EXCEPT ![instance.account] = @ + delta]
        ELSE accts

\* update_balance_on_save, the post_save receiver: the accounts afterwards.
update_balance_on_save(instance, cached, accts) ==
    LET new_effect == tx_effect(instance.amount, instance.transaction_type)
        old_account_id == cached.old_account_id
        moved == old_account_id # None /\ old_account_id # Some(instance.account)
        reversed == IF moved /\ old_account_id[1] \in DOMAIN accts
                    THEN [accts EXCEPT ![old_account_id[1]] = @ - cached.old_effect]
                    ELSE accts
        delta == IF old_account_id = Some(instance.account)
                 THEN new_effect - cached.old_effect
                 ELSE new_effect
    IN  IF delta # 0 /\ instance.account \in DOMAIN reversed
        THEN [reversed EXCEPT ![instance.account] = @ + delta]
        ELSE reversed

\* update_balance_on_delete, the post_delete receiver.
update_balance_on_delete(instance, accts) ==
    IF instance.account \in DOMAIN accts
    THEN [accts EXCEPT ![instance.account] =
              @ - tx_effect(instance.amount, instance.transaction_type)]
    ELSE accts

\* Most milling transactions ever recorded.
MaxMillingTxns == 2

\* Most saves and deletes of milling transactions.
MaxMillingTxOps == 4

MillingAmounts == {1000, 150000, 158514}

\* The balances when the model starts.
OpeningCustomerBalances == [c \in Customers |-> IF c = "c1" THEN 0 ELSE 50000]

MillingLedgerInit ==
    /\ accounts = OpeningCustomerBalances
    /\ txns = {}
    /\ ops = 0
    /\ nextPk = 1
    /\ obj = None
    /\ pc = "off"
    /\ table = {}
    /\ purchases = <<>>
    /\ req = <<>>
    /\ inventory = <<>>
    /\ sales = {}

\* A new MillingTransaction saved: pre_save, INSERT, post_save. obj keeps
\* what pre_save cached, with the row's key.
MillingTxCreate(account, amount, transaction_type) ==
    LET instance == [pk |-> None, account |-> account, amount |-> amount,
                     transaction_type |-> transaction_type, milling_process |-> None]
        written == [instance EXCEPT !.pk = Some(nextPk)]
        cached == cache_old_values(instance, txns)
    IN  /\ nextPk <= MaxMillingTxns
        /\ ops < MaxMillingTxOps
        /\ txns' = txns \cup {written}
        /\ nextPk' = nextPk + 1
        /\ accounts' = update_balance_on_save(written, cached, accounts)
        /\ ops' = ops + 1
        /\ obj' = Some(cached @@ [pk |-> written.pk])
        /\ pc' = "tx_created"
        /\ UNCHANGED <<table, purchases, req, inventory, sales>>

\* A stored MillingTransaction saved with another account, amount and/or
\* type: pre_save reads the stored row, UPDATE, post_save.
MillingTxUpdate(tx, account, amount, transaction_type) ==
    LET instance == [tx EXCEPT !.account = account, !.amount = amount,
                               !.transaction_type = transaction_type]
        cached == cache_old_values(instance, txns)
    IN  /\ tx \in txns
        /\ ops < MaxMillingTxOps
        /\ txns' = (txns \ {tx}) \cup {instance}
        /\ accounts' = update_balance_on_save(instance, cached, accounts)
        /\ ops' = ops + 1
        /\ obj' = Some(cached @@ [pk |-> instance.pk])
        /\ pc' = "tx_updated"
        /\ UNCHANGED <<table, nextPk, purchases, req, inventory, sales>>

\* A stored MillingTransaction deleted: DELETE, post_delete.
MillingTxDelete(tx) ==
    /\ tx \in txns
    /\ ops < MaxMillingTxOps
    /\ txns' = txns \ {tx}
    /\ accounts' = update_balance_on_delete(tx, accounts)
    /\ ops' = ops + 1
    /\ obj' = Some([old_account_id |-> Some(tx.account),
                    old_effect |-> tx_effect(tx.amount, tx.transaction_type),
                    pk |-> tx.pk])
    /\ pc' = "tx_deleted"
    /\ UNCHANGED <<table, nextPk, purchases, req, inventory, sales>>

MillingLedgerNext ==
    \/ \E a \in Customers, m \in MillingAmounts, t \in TxTypes : MillingTxCreate(a, m, t)
    \/ \E tx \in txns, a \in Customers, m \in MillingAmounts, t \in TxTypes :
           MillingTxUpdate(tx, a, m, t)
    \/ \E tx \in txns : MillingTxDelete(tx)

SpecMillingLedger == MillingLedgerInit /\ [][MillingLedgerNext]_vars

\* The sum of the effects of the transactions now on an account.
EffectsOn(c) ==
    FnSum([tx \in {tx \in txns : tx.account = c} |->
               tx_effect(tx.amount, tx.transaction_type)])

\* C22: after any sequence of MillingTransaction creates, updates and
\* deletes, every CustomerAccount balance has changed by exactly the sum of
\* the effects of the transactions now on that account (DEBIT +amount,
\* CREDIT -amount).
C22_BalanceIsSumOfEffects ==
    \A c \in Customers : accounts[c] - OpeningCustomerBalances[c] = EffectsOn(c)

\* A transaction has just been moved from one account to the other with its
\* amount and type changed, after another one was deleted.
C22_Witness ==
    /\ pc = "tx_updated"
    /\ nextPk > MaxMillingTxns
    /\ Cardinality(txns) = 1
    /\ \E tx \in txns :
           /\ tx.pk = obj[1].pk
           /\ obj[1].old_account_id # Some(tx.account)
           /\ obj[1].old_effect # tx_effect(tx.amount, tx.transaction_type)

-----------------------------------------------------------------------------
(* Saves of one MillingProcess: MillingProcess.save() with the post_save    *)
(* receiver handle_completed_milling, and payments against the process.     *)
(* hulled_weight and milling_rate are in hundredths, so a milling cost is   *)
(* in ten-thousandths; balances and stored amounts are in hundredths.       *)

PENDING == "P"
COMPLETED == "C"
CANCELLED == "X"

\* MillingProcess.milling_cost, in ten-thousandths.
milling_cost(self) ==
    IF self.hulled_weight = None \/ self.milling_rate = None THEN 0
    ELSE self.hulled_weight[1] * self.milling_rate[1]

\* A value in ten-thousandths written to a DecimalField(decimal_places=2)
\* column: the stored hundredths. (A tie rounds to even; the model's inputs
\* produce no tie, where database backends differ.)
decimal_places_2(x) ==
    LET t == x \div 100
        r == x % 100
    IN  IF r < 50 THEN t
        ELSE IF r > 50 THEN t + 1
        ELSE IF t % 2 = 0 THEN t ELSE t + 1

\* MillingTransaction.objects.filter(milling_process=instance, account=account,
\* amount=amount, transaction_type=DEBIT).exists(): the answers the query can
\* give. An amount with more than two decimals is compared as it is or
\* rounded to the column's two decimals, depending on the database backend.
charge_exists(instance, amount, txs) ==
    LET charges == {tx \in txs : /\ tx.milling_process = instance.pk
                                 /\ tx.account = instance.customer
                                 /\ tx.transaction_type = DEBIT}
    IN  {\E tx \in charges : tx.amount * 100 = amount,
         \E tx \in charges : tx.amount = decimal_places_2(amount)}

\* MillingTransaction.objects.create(...) by handle_completed_milling, with
\* the MillingTransaction receivers, which see the unrounded amount: the
\* accounts in the database afterwards.
create_charge(instance, amount, accts, txs) ==
    LET created == [pk |-> None, account |-> instance.customer, amount |-> amount,
                    transaction_type |-> DEBIT, milling_process |-> instance.pk]
        after == update_balance_on_save(created, cache_old_values(created, txs),
                                        [c \in DOMAIN accts |-> accts[c] * 100])
    IN  [c \in DOMAIN accts |-> decimal_places_2(after[c])]

\* Faulty variant of handle_completed_milling: the balance the handler adds
\* the amount to is the one the MillingTransaction receiver has just written.
handle_completed_milling_FreshBalance(instance, found, tx_pk, accts, txs) ==
    IF instance.status = COMPLETED /\ OrZero(instance.hulled_weight) # 0
    THEN LET amount == milling_cost(instance)
             written == [pk |-> Some(tx_pk), account |-> instance.customer,
                         amount |-> decimal_places_2(amount),
                         transaction_type |-> DEBIT,
                         milling_process |-> instance.pk]
             after_create == create_charge(instance, amount, accts, txs)
         IN  IF found THEN [accounts |-> accts, txns |-> txs]
             ELSE [accounts |-> [after_create EXCEPT ![instance.customer] =
                                     decimal_places_2(@ * 100 + amount)],
                   txns |-> txs \cup {written}]
    ELSE [accounts |-> accts, txns |-> txs]

\* handle_completed_milling, the post_save receiver of MillingProcess: the
\* accounts and transactions afterwards. found is the answer of the
\* duplicate check; account is the CustomerAccount read before the
\* transaction is created, whose balance the handler then adds to and saves.
handle_completed_milling(instance, found, tx_pk, accts, txs) ==
    IF instance.status = COMPLETED /\ OrZero(instance.hulled_weight) # 0
    THEN LET account == accts[instance.customer]
             amount == milling_cost(instance)
             written == [pk |-> Some(tx_pk), account |-> instance.customer,
                         amount |-> decimal_places_2(amount),
                         transaction_type |-> DEBIT,
                         milling_process |-> instance.pk]
             after_create == create_charge(instance, amount, accts, txs)
         IN  IF found THEN [accounts |-> accts, txns |-> txs]
             ELSE [accounts |-> [after_create EXCEPT ![instance.customer] =
                                     decimal_places_2(account * 100 + amount)],
                   txns |-> txs \cup {written}]
    ELSE [accounts |-> accts, txns |-> txs]

\* Most saves of the process.
MaxProcessSaves == 3

\* Most transactions ever recorded against the process.
MaxProcessTxns == 4

HulledWeights == {None, Some(1000), Some(1055), Some(1200)}
MillingRates == {None, Some(15000), Some(15025)}
Statuses == {PENDING, COMPLETED, CANCELLED}
PaymentAmounts == {50000}

\* MillingProcess(), not saved yet, with the fields' defaults.
NewProcess ==
    [pk |-> None, customer |-> None, hulled_weight |-> None,
     milling_rate |-> Some(15000), status |-> COMPLETED]

MillingInit ==
    /\ obj = NewProcess
    /\ pc = "new"
    /\ accounts = OpeningCustomerBalances
    /\ txns = {}
    /\ ops = 0
    /\ nextPk = 1
    /\ table = {}
    /\ purchases = <<>>
    /\ req = <<>>
    /\ inventory = <<>>
    /\ sales = {}

\* MillingProcess.save() of a new instance whose fields a form has set (the
\* milling_list views, the admin): INSERT, then post_save runs
\* handle_completed_milling.
ProcessCreate(customer, hulled_weight, milling_rate, status) ==
    LET instance == [NewProcess EXCEPT !.pk = Some(1), !.customer = customer,
                                       !.hulled_weight = hulled_weight,
                                       !.milling_rate = milling_rate,
                                       !.status = status]
    IN  /\ obj.pk = None
        /\ \E found \in charge_exists(instance, milling_cost(instance), txns) :
               LET after == handle_completed_milling(instance, found, nextPk,
                                                     accounts, txns)
               IN  /\ accounts' = after.accounts
                   /\ txns' = after.txns
                   /\ nextPk' = IF after.txns = txns THEN nextPk ELSE nextPk + 1
        /\ obj' = instance
        /\ pc' = "created"
        /\ ops' = ops + 1
        /\ UNCHANGED <<table, purchases, req, inventory, sales>>

\* MillingProcess.save() of the stored process, loaded and with its fields
\* set by a form: UPDATE, then post_save runs handle_completed_milling.
ProcessUpdate(hulled_weight, milling_rate, status) ==
    LET instance == [obj EXCEPT !.hulled_weight = hulled_weight,
                                !.milling_rate = milling_rate,
                                !.status = status]
    IN  /\ obj.pk # None
        /\ ops < MaxProcessSaves
        /\ nextPk <= MaxProcessTxns
        /\ \E found \in charge_exists(instance, milling_cost(instance), txns) :
               LET after == handle_completed_milling(instance, found, nextPk,
                                                     accounts, txns)
               IN  /\ accounts' = after.accounts
                   /\ txns' = after.txns
                   /\ nextPk' = IF after.txns = txns THEN nextPk ELSE nextPk + 1
        /\ obj' = instance
        /\ pc' = "updated"
        /\ ops' = ops + 1
        /\ UNCHANGED <<table, purchases, req, inventory, sales>>

\* create_milling_payment: a CREDIT MillingTransaction for the process on
\* its customer's account, with the MillingTransaction receivers.
MillingPayment(amount) ==
    LET instance == [pk |-> None, account |-> obj.customer, amount |-> amount,
                     transaction_type |-> CREDIT, milling_process |-> obj.pk]
        written == [instance EXCEPT !.pk = Some(nextPk)]
    IN  /\ obj.pk # None
        /\ nextPk <= MaxProcessTxns
        /\ Cardinality({tx \in txns : tx.transaction_type = CREDIT}) < 1
        /\ txns' = txns \cup {written}
        /\ nextPk' = nextPk + 1
        /\ accounts' = update_balance_on_save(
                            written, cache_old_values(instance, txns), accounts)
        /\ pc' = "paid"
        /\ UNCHANGED <<obj, table, purchases, req, inventory, sales, ops>>

MillingNext ==
    \/ \E c \in Customers, w \in HulledWeights, m \in MillingRates, st \in Statuses :
           ProcessCreate(c, w, m, st)
    \/ \E w \in HulledWeights, m \in MillingRates, st \in Statuses :
           ProcessUpdate(w, m, st)
    \/ \E amount \in PaymentAmounts : MillingPayment(amount)

SpecMilling == MillingInit /\ [][MillingNext]_vars

\* The DEBIT transactions recorded for the process.
ChargesOf(process) ==
    {tx \in txns : tx.milling_process = process.pk /\ tx.transaction_type = DEBIT}

\* C23 as stated: after any sequence of saves of one process, edits to
\* hulled_weight or milling_rate included, at most one DEBIT
\* MillingTransaction exists for it, and the customer's balance holds that
\* one charge (less the payments made).
C23_NoDuplicateCharge ==
    obj.pk # None =>
        /\ Cardinality(ChargesOf(obj)) <= 1
        /\ \E charged \in {0} \cup {tx.amount : tx \in ChargesOf(obj)} :
               accounts[obj.customer] - OpeningCustomerBalances[obj.customer]
                   = charged - FnSum([tx \in {tx \in txns : tx.transaction_type = CREDIT}
                                          |-> tx.amount])

\* The step is the first save of the process, as COMPLETED and with a hulled
\* weight.
FirstCompletedSave ==
    /\ \E c \in Customers, w \in HulledWeights, m \in MillingRates, st \in Statuses :
           ProcessCreate(c, w, m, st)
    /\ obj'.status = COMPLETED
    /\ obj'.hulled_weight # None

\* C24 as stated: the first save of a completed MillingProcess with a hulled
\* weight increases the customer's balance by exactly
\* hulled_weight x milling_rate.
C24_Original ==
    [][FirstCompletedSave =>
           (accounts'[obj'.customer] - accounts[obj'.customer]) * 100
               = milling_cost(obj')]_vars

\* C24, amended: the first save of a completed MillingProcess with a hulled
\* weight increases the customer's balance by its milling cost rounded to
\* the balance column's two decimal places, once, and leaves the other
\* balances alone.
C24_ChargedOnce ==
    [][FirstCompletedSave =>
           /\ accounts'[obj'.customer] - accounts[obj'.customer]
                  = decimal_places_2(milling_cost(obj'))
           /\ \A c \in Customers \ {obj'.customer} : accounts'[c] = accounts[c]
           /\ Cardinality({tx \in txns' : /\ tx.milling_process = obj'.pk
                                          /\ tx.transaction_type = DEBIT}) = 1]_vars

\* A process has just been saved for the first time, COMPLETED, for the
\* customer who already owed something, at a cost with four decimals; the
\* transaction and the balance hold the rounded cost.
C24_Witness ==
    /\ pc = "created"
    /\ obj.status = COMPLETED
    /\ obj.customer = "c2"
    /\ milling_cost(obj) = 15851375
    /\ \E tx \in txns : tx.amount = 158514 /\ tx.transaction_type = DEBIT
    /\ accounts["c2"] = OpeningCustomerBalances["c2"] + 158514

=============================================================================
